---- MODULE Spec2Model ----
(***************************************************************************)
(* Model of the fuel-stop planner of optimised-route                       *)
(* (src/fuel_optimizer.py, class FuelOptimizer), and of the geocoding loop *)
(* that prepares its station list (src/fuel_data.py, src/us_cities.py).    *)
(*                                                                         *)
(* Numbers.  Distances are miles, prices are cents per gallon, both whole  *)
(* numbers.  Quotients the code computes in floating point (gallons, cost, *)
(* average price) are kept as exact fractions <<numerator, denominator>>.  *)
(*                                                                         *)
(* Geometry.  All route points and stations lie on one meridian, and a     *)
(* latitude is written as the length in miles of the arc from the equator  *)
(* (lat_degrees = miles * 180 / (pi * 3959)).  For two points of equal     *)
(* longitude the haversine formula of src/routing.py gives                 *)
(* a = sin^2(dlat/2), c = |dlat| and so R * c = |miles2 - miles1|.         *)
(***************************************************************************)
EXTENDS Integers, Sequences, FiniteSets, TLC

VARIABLES
    route_geometry,        \* argument: GeoJSON geometry of the route
    fuel_stations,         \* argument: the caller's station list
    total_distance_miles,  \* argument: route length reported by the router
    max_range,             \* self.max_range
    mpg,                   \* self.mpg
    pc,                    \* position inside find_optimal_fuel_stops
    route_stations,        \* result of _find_stations_near_route
    stops,                 \* _greedy_fuel_stops: stops
    current_position,      \* _greedy_fuel_stops: current_position
    remaining_range,       \* _greedy_fuel_stops: remaining_range
    fallback_taken,        \* history: some stop was appended by the "nearest ahead" branch
    broke_out,             \* history: the loop was left by the break of line 169
    last_choice,           \* history: what the latest loop iteration saw and chose
    called,                \* history: the private methods entered so far
    total_cost,            \* find_optimal_fuel_stops: total_cost, unrounded (line 71)
    result,                \* the dictionary returned to the caller
    n_cities,              \* get_stations_near_route: rows of unique_cities
    city_index,            \* get_stations_near_route: rows handled so far
    api_calls,             \* get_stations_near_route: api_calls
    api_attempts,          \* history: invocations of _geocode_via_api in this call
    late_api_use           \* history: use_api was True with api_calls at the limit

vars == <<route_geometry, fuel_stations, total_distance_miles, max_range, mpg,
          pc, route_stations, stops, current_position, remaining_range,
          fallback_taken, broke_out, last_choice, called, total_cost, result,
          n_cities, city_index, api_calls, api_attempts, late_api_use>>

\* the state of FuelDataManager.get_stations_near_route
geocoding == <<n_cities, city_index, api_calls, api_attempts, late_api_use>>

inputs == <<route_geometry, fuel_stations, total_distance_miles, max_range, mpg>>

(***************************************************************************)
(* Bounds of the model and the values the inputs are drawn from.           *)
(***************************************************************************)
MaxCoords == 3
MaxStations == 2
MaxCities == 11

RouteLats == {150, 300, 450}
Longitudes == {0}

\* <<latitude, price>> of the stations on offer: on a route point, 20 miles
\* off one (the search radius) and 21 miles off one
StationSites ==
    {<<150, 300>>, <<300, 280>>, <<300, 300>>, <<450, 280>>, <<320, 300>>, <<321, 280>>}

\* <<total_distance_miles, max_range, mpg>>
Configurations ==
    {<<600, 500, 10>>, <<600, 500, 7>>, <<400, 500, 10>>, <<500, 500, 7>>,
     <<600, 200, 10>>, <<500, 200, 7>>, <<450, 200, 10>>, <<400, 200, 10>>}

\* program constants
search_radius_miles == 20
SampleTarget == 500
NoStopNeededMessage == "Route is within vehicle range. No fuel stop needed."
NoStationsMessage == "No fuel stations found near route. Please plan manually."

(***************************************************************************)
(* Exact fractions and Python's round(x, ndigits).                         *)
(***************************************************************************)
Abs(x) == IF x < 0 THEN -x ELSE x

RECURSIVE GCD(_, _)
GCD(a, b) == IF b = 0 THEN a ELSE GCD(b, a % b)

Frac(n, d) ==
    LET g == GCD(Abs(n), d)
    IN  <<n \div g, d \div g>>

FracEq(a, b) == a[1] * b[2] = b[1] * a[2]
FracLeq(a, b) == a[1] * b[2] <= b[1] * a[2]
FracAdd(a, b) == Frac(a[1] * b[2] + b[1] * a[2], a[2] * b[2])
FracMul(a, b) == Frac(a[1] * b[1], a[2] * b[2])
FracDiv(a, b) == Frac(a[1] * b[2], a[2] * b[1])
FracMin(a, b) == IF FracLeq(a, b) THEN a ELSE b
Zero == <<0, 1>>

RECURSIVE Pow10(_)
Pow10(k) == IF k = 0 THEN 1 ELSE 10 * Pow10(k - 1)

\* variant: the digits after ndigits are cut off instead of rounded
RoundDown(x, ndigits) ==
    <<(x[1] * Pow10(ndigits)) \div x[2], Pow10(ndigits)>>

\* nearest whole number to n / d (d > 0), a tie going to the even neighbour
RoundHalfEven(n, d) ==
    LET m == Abs(n)
        q == m \div d
        r == m % d
        up == \/ 2 * r > d
              \/ 2 * r = d /\ q % 2 = 1
        a == IF up THEN q + 1 ELSE q
    IN  IF n < 0 THEN -a ELSE a

\* round(x, ndigits), kept unreduced so that the denominator shows the digits
Round(x, ndigits) ==
    <<RoundHalfEven(x[1] * Pow10(ndigits), x[2]), Pow10(ndigits)>>

\* the quotient a / b of two whole numbers
Quotient(a, b) == Frac(a, b)

(***************************************************************************)
(* routing.haversine_distance, for two points on the common meridian.      *)
(***************************************************************************)
haversine_distance(lat1, lon1, lat2, lon2) ==
    IF lat2 >= lat1 THEN lat2 - lat1 ELSE lat1 - lat2

(***************************************************************************)
(* FuelOptimizer._find_stations_near_route                                 *)
(***************************************************************************)
Max(a, b) == IF a >= b THEN a ELSE b

\* geometry.get("coordinates", [])
Coordinates(geometry) ==
    IF geometry.has_coordinates THEN geometry.coordinates ELSE <<>>

sample_rate(coords) == Max(1, Len(coords) \div SampleTarget)

\* coords[::sample_rate]
Slice(coords, rate) ==
    [k \in 1..((Len(coords) + rate - 1) \div rate) |-> coords[(k - 1) * rate + 1]]

sampled_coords(coords) == Slice(coords, sample_rate(coords))

\* the list that starts as [0] and gets one sum per further sampled point
RECURSIVE CumulativeUpTo(_, _)
CumulativeUpTo(sc, n) ==
    IF n <= 1 THEN <<0>>
    ELSE LET prev == CumulativeUpTo(sc, n - 1)
         IN  Append(prev, prev[n - 1] + haversine_distance(sc[n - 1][2], sc[n - 1][1],
                                                            sc[n][2], sc[n][1]))

cumulative_distances(sc) == CumulativeUpTo(sc, Len(sc))

\* float('inf')
Infinity == -1

\* variant: a sample as near as the best so far replaces it
CloserOrAsClose(dist, min) == min = Infinity \/ dist <= min

\* dist_to_station < min_distance_to_route
CloserThan(dist, min) == min = Infinity \/ dist < min

\* the scan "for i, coord in enumerate(sampled_coords)" from sample i on
RECURSIVE ScanSamples(_, _, _, _, _, _)
ScanSamples(sc, cum, slat, slon, i, best) ==
    IF i > Len(sc) THEN best
    ELSE LET dist_to_station == haversine_distance(sc[i][2], sc[i][1], slat, slon)
         IN  IF CloserThan(dist_to_station, best.min_distance_to_route)
             THEN ScanSamples(sc, cum, slat, slon, i + 1,
                      [min_distance_to_route |-> dist_to_station,
                       distance_along_route |-> cum[i]])
             ELSE ScanSamples(sc, cum, slat, slon, i + 1, best)

NearestSample(sc, cum, station) ==
    ScanSamples(sc, cum, station.lat, station.lon, 1,
                [min_distance_to_route |-> Infinity, distance_along_route |-> 0])

\* 'lat' not in station or 'lon' not in station
MissingCoordinate(station) == ~station.has_lat \/ ~station.has_lon

\* variant: the radius test is dropped
AnyFiniteDistance(min) == min # Infinity

\* variant: a station on the boundary of the radius is left out
WithinRadiusStrict(min) == min # Infinity /\ min < search_radius_miles

\* min_distance_to_route <= self.search_radius_miles
WithinRadius(min) == min # Infinity /\ min <= search_radius_miles

\* station.copy() with the two added keys
station_with_dist(station, near) ==
    [id |-> station.id, price |-> station.price,
     lat |-> station.lat, lon |-> station.lon,
     distance_from_start |-> near.distance_along_route,
     distance_to_route |-> near.min_distance_to_route]

\* the loop "for station in stations", from station k on
RECURSIVE Collect(_, _, _, _)
Collect(sc, cum, stations, k) ==
    IF k > Len(stations) THEN <<>>
    ELSE LET station == stations[k]
             rest == Collect(sc, cum, stations, k + 1)
         IN  IF MissingCoordinate(station) THEN rest
             ELSE LET near == NearestSample(sc, cum, station)
                  IN  IF WithinRadius(near.min_distance_to_route)
                      THEN <<station_with_dist(station, near)>> \o rest
                      ELSE rest

\* variant: an element goes in front of the elements of equal distance
RECURSIVE InsertBeforeEqual(_, _)
InsertBeforeEqual(sorted, x) ==
    IF sorted = <<>> THEN <<x>>
    ELSE IF x.distance_from_start <= Head(sorted).distance_from_start
         THEN <<x>> \o sorted
         ELSE <<Head(sorted)>> \o InsertBeforeEqual(Tail(sorted), x)

\* list.sort(key=distance_from_start): a stable sort, here by insertion
RECURSIVE InsertByDistance(_, _)
InsertByDistance(sorted, x) ==
    IF sorted = <<>> THEN <<x>>
    ELSE IF x.distance_from_start < Head(sorted).distance_from_start
         THEN <<x>> \o sorted
         ELSE <<Head(sorted)>> \o InsertByDistance(Tail(sorted), x)

RECURSIVE SortByDistance(_)
SortByDistance(list) ==
    IF list = <<>> THEN <<>>
    ELSE InsertByDistance(SortByDistance(SubSeq(list, 1, Len(list) - 1)),
                          list[Len(list)])

\* variant: the two keys are written to the caller's record, not to a copy
annotated_in_place(station, near) ==
    [id |-> station.id, price |-> station.price,
     lat |-> station.lat, lon |-> station.lon,
     has_lat |-> station.has_lat, has_lon |-> station.has_lon,
     distance_from_start |-> near.distance_along_route,
     distance_to_route |-> near.min_distance_to_route]

\* line 124 works on station.copy(): the caller's record stays as it was
left_in_input(station, near) == station

\* the caller's list after the loop "for station in stations"
stations_after_projection(geometry, stations) ==
    LET sc == sampled_coords(Coordinates(geometry))
        cum == cumulative_distances(sc)
    IN  [k \in DOMAIN stations |->
            IF MissingCoordinate(stations[k]) THEN stations[k]
            ELSE LET near == NearestSample(sc, cum, stations[k])
                 IN  IF WithinRadius(near.min_distance_to_route)
                     THEN left_in_input(stations[k], near)
                     ELSE stations[k]]

find_stations_near_route(geometry, stations) ==
    LET sc == sampled_coords(Coordinates(geometry))
        cum == cumulative_distances(sc)
    IN  SortByDistance(Collect(sc, cum, stations, 1))

(***************************************************************************)
(* FuelOptimizer._greedy_fuel_stops, one loop iteration at a time          *)
(***************************************************************************)
\* variant: the loop also runs when the destination is exactly in reach
MustRefuelOrJustReach(cur, rem, total) == cur + rem <= total

\* while current_position + remaining_range < total_distance
MustRefuel(cur, rem, total) == cur + rem < total

\* variant: the upper end of the window is not tested
ReachableUnbounded(stations, cur, max_reach) ==
    SelectSeq(stations, LAMBDA s : cur < s.distance_from_start)

\* variant: a station at the current position counts as reachable
ReachableOrHere(stations, cur, max_reach) ==
    SelectSeq(stations, LAMBDA s : cur <= s.distance_from_start
                                   /\ s.distance_from_start <= max_reach)

\* [s for s in stations if current_position < s['distance_from_start'] <= max_reach]
Reachable(stations, cur, max_reach) ==
    SelectSeq(stations, LAMBDA s : cur < s.distance_from_start
                                   /\ s.distance_from_start <= max_reach)

\* variant: a station at the current position counts as ahead
AheadOrHere(stations, cur) ==
    SelectSeq(stations, LAMBDA s : s.distance_from_start >= cur)

\* [s for s in stations if s['distance_from_start'] > current_position]
Ahead(stations, cur) ==
    SelectSeq(stations, LAMBDA s : s.distance_from_start > cur)

\* variant: every reachable station counts as far
FarReachableAll(reachable, cur, rem) == reachable

\* variant: the factor 0.5 is forgotten
FarReachableFullRange(reachable, cur, rem) ==
    SelectSeq(reachable, LAMBDA s : s.distance_from_start > cur + rem)

\* [s for s in reachable if s['distance_from_start'] > current_position + remaining_range * 0.5]
FarReachable(reachable, cur, rem) ==
    SelectSeq(reachable, LAMBDA s : 2 * s.distance_from_start > 2 * cur + rem)

\* min(list, key=lambda x: x['price']): the first element that no other undercuts
RECURSIVE MinByPriceFrom(_, _, _)
MinByPriceFrom(list, i, best) ==
    IF i > Len(list) THEN best
    ELSE IF list[i].price < best.price
         THEN MinByPriceFrom(list, i + 1, list[i])
         ELSE MinByPriceFrom(list, i + 1, best)

\* min(list, key=lambda x: x['distance_from_start'])
RECURSIVE MinByDistanceFrom(_, _, _)
MinByDistanceFrom(list, i, best) ==
    IF i > Len(list) THEN best
    ELSE IF list[i].distance_from_start < best.distance_from_start
         THEN MinByDistanceFrom(list, i + 1, list[i])
         ELSE MinByDistanceFrom(list, i + 1, best)

\* variant: of several cheapest elements the last one wins
RECURSIVE LastMinFrom(_, _, _)
LastMinFrom(list, i, best) ==
    IF i > Len(list) THEN best
    ELSE IF list[i].price <= best.price
         THEN LastMinFrom(list, i + 1, list[i])
         ELSE LastMinFrom(list, i + 1, best)

LastMinByPrice(list) == LastMinFrom(list, 2, list[1])

MinByPrice(list) == MinByPriceFrom(list, 2, list[1])
\* variant: the element farthest down the list is taken
LastOfList(list) == list[Len(list)]

MinByDistance(list) == MinByDistanceFrom(list, 2, list[1])

\* variant: the first candidate is taken whatever its price
FirstCandidate(reachable, far_reachable) ==
    IF far_reachable # <<>> THEN far_reachable[1] ELSE reachable[1]

\* lines 175-181: the cheapest far-reachable station, else the cheapest reachable one
Best(reachable, far_reachable) ==
    IF far_reachable # <<>> THEN MinByPrice(far_reachable) ELSE MinByPrice(reachable)

NoChoice == [kind |-> "none"]

(***************************************************************************)
(* FuelOptimizer._calculate_total_cost                                     *)
(***************************************************************************)
\* stops[i + 1]['distance_from_start'], or total_distance for the last stop
next_pos(stop_list, i, total) ==
    IF i = Len(stop_list) THEN total ELSE stop_list[i + 1].distance_from_start

\* variant: the purchase is not capped at a full tank
gallons_uncapped(segment_distance, range, m) ==
    FracMul(Quotient(segment_distance, m), <<6, 5>>)

\* min(gallons_for_segment * 1.2, self.max_range / self.mpg)
gallons_purchased(segment_distance, range, m) ==
    FracMin(FracMul(Quotient(segment_distance, m), <<6, 5>>), Quotient(range, m))

\* a price of c cents, in dollars
Dollars(c) == Frac(c, 100)

RECURSIVE CostFrom(_, _, _, _, _)
CostFrom(stop_list, i, total, range, m) ==
    IF i > Len(stop_list) THEN Zero
    ELSE LET segment_distance == next_pos(stop_list, i, total)
                                   - stop_list[i].distance_from_start
         IN  FracAdd(FracMul(gallons_purchased(segment_distance, range, m),
                             Dollars(stop_list[i].price)),
                     CostFrom(stop_list, i + 1, total, range, m))

calculate_total_cost(stop_list, total, range, m) ==
    IF stop_list = <<>> THEN Zero ELSE CostFrom(stop_list, 1, total, range, m)

(***************************************************************************)
(* The inputs of one call of find_optimal_fuel_stops                       *)
(***************************************************************************)
SeqsUpTo(S, n) == UNION {[1..k -> S] : k \in 0..n}

\* the geometries on offer: consecutive route points are distinct, and one
\* geometry has no "coordinates" key
Geometries ==
    {[has_coordinates |-> TRUE, coordinates |-> [k \in DOMAIN lats |-> <<lon, lats[k]>>]] :
        lats \in {l \in SeqsUpTo(RouteLats, MaxCoords) :
                     \A k \in 1..(Len(l) - 1) : l[k] # l[k + 1]},
        lon \in Longitudes}
    \cup {[has_coordinates |-> FALSE, coordinates |-> <<>>]}

\* a station record without its id; two records lack a coordinate
StationData ==
    {[price |-> site[2], lat |-> site[1], lon |-> lon, has_lat |-> TRUE, has_lon |-> TRUE] :
        site \in StationSites, lon \in Longitudes}
    \cup {[price |-> 280, lat |-> 300, lon |-> lon, has_lat |-> hlat, has_lon |-> ~hlat] :
             lon \in Longitudes, hlat \in BOOLEAN}

WithIds(data) ==
    [k \in DOMAIN data |->
        [id |-> k, price |-> data[k].price, lat |-> data[k].lat, lon |-> data[k].lon,
         has_lat |-> data[k].has_lat, has_lon |-> data[k].has_lon]]

StationLists == {WithIds(data) : data \in SeqsUpTo(StationData, MaxStations)}

NoResult == [outcome |-> "pending"]

\* no call of get_stations_near_route is under way
GeocodingIdle ==
    /\ n_cities = 0
    /\ city_index = 0
    /\ api_calls = 0
    /\ api_attempts = 0
    /\ late_api_use = FALSE

Init ==
    /\ route_geometry \in Geometries
    /\ fuel_stations \in StationLists
    /\ \E cfg \in Configurations :
         /\ total_distance_miles = cfg[1]
         /\ max_range = cfg[2]
         /\ mpg = cfg[3]
    /\ pc = "start"
    /\ route_stations = <<>>
    /\ stops = <<>>
    /\ current_position = 0
    /\ remaining_range = 0
    /\ fallback_taken = FALSE
    /\ broke_out = FALSE
    /\ last_choice = NoChoice
    /\ called = {}
    /\ total_cost = Zero
    /\ result = NoResult
    /\ GeocodingIdle

(***************************************************************************)
(* FuelOptimizer.find_optimal_fuel_stops                                   *)
(***************************************************************************)
\* variant: a route of exactly the range is planned
WithinRangeStrict(total, range) == total < range

\* if total_distance_miles <= self.max_range
WithinRange(total, range) == total <= range

\* lines 41-48
ReturnWithinRange ==
    /\ pc = "start"
    /\ WithinRange(total_distance_miles, max_range)
    /\ result' = [outcome |-> "no stop needed",
                  optimal_stops |-> <<>>,
                  total_gallons |-> Quotient(total_distance_miles, mpg),
                  total_fuel_cost |-> Zero,
                  message |-> NoStopNeededMessage,
                  error |-> FALSE]
    /\ pc' = "done"
    /\ UNCHANGED <<inputs, geocoding, total_cost, route_stations, stops, current_position, remaining_range,
                   fallback_taken, broke_out, last_choice, called>>

\* lines 51-53
FindStationsNearRoute ==
    /\ pc = "start"
    /\ ~WithinRange(total_distance_miles, max_range)
    /\ route_stations' = find_stations_near_route(route_geometry, fuel_stations)
    /\ fuel_stations' = stations_after_projection(route_geometry, fuel_stations)
    /\ called' = called \cup {"_find_stations_near_route"}
    /\ pc' = "projected"
    /\ UNCHANGED <<route_geometry, total_distance_miles, max_range, mpg,
                   geocoding, total_cost, stops, current_position, remaining_range,
                   fallback_taken, broke_out, last_choice, result>>

\* lines 55-62
ReturnNoStations ==
    /\ pc = "projected"
    /\ route_stations = <<>>
    /\ result' = [outcome |-> "no stations available",
                  optimal_stops |-> <<>>,
                  total_gallons |-> Quotient(total_distance_miles, mpg),
                  total_fuel_cost |-> Zero,
                  message |-> NoStationsMessage,
                  error |-> TRUE]
    /\ pc' = "done"
    /\ UNCHANGED <<inputs, geocoding, total_cost, route_stations, stops, current_position, remaining_range,
                   fallback_taken, broke_out, last_choice, called>>

\* lines 65-67 and 144-146: entry of _greedy_fuel_stops
StartGreedy ==
    /\ pc = "projected"
    /\ route_stations # <<>>
    /\ stops' = <<>>
    /\ current_position' = 0
    /\ remaining_range' = max_range
    /\ called' = called \cup {"_greedy_fuel_stops"}
    /\ pc' = "loop"
    /\ UNCHANGED <<inputs, geocoding, total_cost, route_stations, fallback_taken, broke_out, last_choice, result>>

\* lines 158-167 and 170: nothing reachable, the nearest station ahead is taken
GreedyFallback ==
    /\ pc = "loop"
    /\ MustRefuel(current_position, remaining_range, total_distance_miles)
    /\ LET reachable == Reachable(route_stations, current_position,
                                  current_position + remaining_range)
           ahead == Ahead(route_stations, current_position)
       IN  /\ reachable = <<>>
           /\ ahead # <<>>
           /\ LET nearest == MinByDistance(ahead)
              IN  /\ stops' = Append(stops, nearest)
                  /\ current_position' = nearest.distance_from_start
                  /\ last_choice' = [kind |-> "fallback", from |-> current_position,
                                     range |-> remaining_range,
                                     reachable |-> reachable, far_reachable |-> <<>>,
                                     candidates |-> ahead, chosen |-> nearest]
    /\ remaining_range' = max_range
    /\ fallback_taken' = TRUE
    /\ UNCHANGED <<inputs, geocoding, total_cost, pc, route_stations, broke_out, called, result>>

\* lines 158-161 and 168-169: nothing reachable and nothing ahead
GreedyBreak ==
    /\ pc = "loop"
    /\ MustRefuel(current_position, remaining_range, total_distance_miles)
    /\ Reachable(route_stations, current_position,
                 current_position + remaining_range) = <<>>
    /\ Ahead(route_stations, current_position) = <<>>
    /\ broke_out' = TRUE
    /\ pc' = "selected"
    /\ UNCHANGED <<inputs, geocoding, total_cost, route_stations, stops, current_position, remaining_range,
                   fallback_taken, last_choice, called, result>>

\* lines 172-185: a reachable station is chosen
GreedySelect ==
    /\ pc = "loop"
    /\ MustRefuel(current_position, remaining_range, total_distance_miles)
    /\ LET reachable == Reachable(route_stations, current_position,
                                  current_position + remaining_range)
           far_reachable == FarReachable(reachable, current_position, remaining_range)
       IN  /\ reachable # <<>>
           /\ LET best == Best(reachable, far_reachable)
              IN  /\ stops' = Append(stops, best)
                  /\ current_position' = best.distance_from_start
                  /\ last_choice' = [kind |-> "select", from |-> current_position,
                                     range |-> remaining_range,
                                     reachable |-> reachable,
                                     far_reachable |-> far_reachable,
                                     candidates |-> IF far_reachable # <<>>
                                                    THEN far_reachable ELSE reachable,
                                     chosen |-> best]
    /\ remaining_range' = max_range
    /\ UNCHANGED <<inputs, geocoding, total_cost, pc, route_stations, fallback_taken, broke_out, called, result>>

\* line 148 false, line 187: the destination is within reach
GreedyReturn ==
    /\ pc = "loop"
    /\ ~MustRefuel(current_position, remaining_range, total_distance_miles)
    /\ pc' = "selected"
    /\ UNCHANGED <<inputs, geocoding, total_cost, route_stations, stops, current_position, remaining_range,
                   fallback_taken, broke_out, last_choice, called, result>>

\* lines 69-79
ReturnPlanned ==
    /\ pc = "selected"
    /\ LET total_gallons == Quotient(total_distance_miles, mpg)
           cost == calculate_total_cost(stops, total_distance_miles, max_range, mpg)
       IN  /\ total_cost' = cost
           /\ result' = [outcome |-> "stops planned",
                         optimal_stops |-> stops,
                         total_gallons |-> Round(total_gallons, 2),
                         total_fuel_cost |-> Round(cost, 2),
                         fuel_stops_count |-> Len(stops),
                         average_price_per_gallon |->
                             IF total_gallons[1] > 0
                             THEN Round(FracDiv(cost, total_gallons), 3)
                             ELSE Zero,
                         error |-> FALSE]
    /\ called' = called \cup {"_calculate_total_cost"}
    /\ pc' = "done"
    /\ UNCHANGED <<inputs, geocoding, route_stations, stops, current_position, remaining_range,
                   fallback_taken, broke_out, last_choice>>

Next ==
    \/ ReturnWithinRange
    \/ FindStationsNearRoute
    \/ ReturnNoStations
    \/ StartGreedy
    \/ GreedyFallback
    \/ GreedyBreak
    \/ GreedySelect
    \/ GreedyReturn
    \/ ReturnPlanned

Spec == Init /\ [][Next]_vars

(***************************************************************************)
(* FuelDataManager.get_stations_near_route: the pre-geocoding loop over    *)
(* the unique cities (src/fuel_data.py), with get_city_coords              *)
(* (src/us_cities.py).  A city is in the local table US_CITIES, or in the  *)
(* process-wide _geocode_cache, or in neither; a request to the Nominatim  *)
(* API succeeds or fails.  One action is one iteration of the loop.        *)
(***************************************************************************)
ApiLimit == 10

\* use_api = needs_api and api_calls < 10, for a city absent from US_CITIES
use_api_fallback(calls) == calls < ApiLimit

\* what every iteration does to the history, given the flag it passed
LookedUp(use_api) ==
    /\ city_index' = city_index + 1
    /\ late_api_use' = (late_api_use \/ (use_api /\ api_calls >= ApiLimit))

PlannerIdle ==
    /\ route_geometry = [has_coordinates |-> FALSE, coordinates |-> <<>>]
    /\ fuel_stations = <<>>
    /\ total_distance_miles = 600
    /\ max_range = 500
    /\ mpg = 10
    /\ pc = "start"
    /\ route_stations = <<>>
    /\ stops = <<>>
    /\ current_position = 0
    /\ remaining_range = 0
    /\ fallback_taken = FALSE
    /\ broke_out = FALSE
    /\ last_choice = NoChoice
    /\ called = {}
    /\ total_cost = Zero
    /\ result = NoResult

planner == <<inputs, pc, route_stations, stops, current_position, remaining_range,
             fallback_taken, broke_out, last_choice, called, total_cost, result>>

\* the call starts with api_calls = 0 and any number of unique cities
GeocodeInit ==
    /\ PlannerIdle
    /\ n_cities \in 0..MaxCities
    /\ city_index = 0
    /\ api_calls = 0
    /\ api_attempts = 0
    /\ late_api_use = FALSE

\* the city is in US_CITIES: needs_api is False, no request, no count
GeocodeLocalCity ==
    /\ city_index < n_cities
    /\ LookedUp(FALSE)
    /\ UNCHANGED <<planner, n_cities, api_calls, api_attempts>>

\* the city is not in US_CITIES but in _geocode_cache: get_city_coords
\* returns the cached coordinates without a request, and the loop counts it
GeocodeCachedCity ==
    /\ city_index < n_cities
    /\ LookedUp(use_api_fallback(api_calls))
    /\ api_calls' = api_calls + 1
    /\ UNCHANGED <<planner, n_cities, api_attempts>>

\* the city is in neither table and use_api is True: one request is made;
\* the loop counts it only when coordinates came back
GeocodeViaApi ==
    /\ city_index < n_cities
    /\ use_api_fallback(api_calls)
    /\ LookedUp(TRUE)
    /\ api_attempts' = api_attempts + 1
    /\ \E succeeded \in BOOLEAN :
         api_calls' = IF succeeded THEN api_calls + 1 ELSE api_calls
    /\ UNCHANGED <<planner, n_cities>>

\* the city is in neither table and use_api is False: no request, None
GeocodeWithoutApi ==
    /\ city_index < n_cities
    /\ ~use_api_fallback(api_calls)
    /\ LookedUp(FALSE)
    /\ UNCHANGED <<planner, n_cities, api_calls, api_attempts>>

GeocodeNext ==
    \/ GeocodeLocalCity
    \/ GeocodeCachedCity
    \/ GeocodeViaApi
    \/ GeocodeWithoutApi

GeocodeSpec == GeocodeInit /\ [][GeocodeNext]_vars

(***************************************************************************)
(* Properties                                                              *)
(***************************************************************************)
\* the route is longer than the vehicle's range
Planning == total_distance_miles > max_range

\* _greedy_fuel_stops has returned
SelectionFinished ==
    pc = "selected" \/ (pc = "done" /\ result.outcome = "stops planned")

\* C1 as stated: in a finished selection that never took the nearest-ahead
\* fallback, the gap from the origin to the first stop, every gap between
\* consecutive stops and the gap from the last stop to the destination are
\* at most max_range.
StopGapsWithinRange ==
    /\ stops # <<>> =>
         /\ stops[1].distance_from_start - 0 <= max_range
         /\ total_distance_miles - stops[Len(stops)].distance_from_start <= max_range
    /\ \A i \in 1..(Len(stops) - 1) :
         stops[i + 1].distance_from_start - stops[i].distance_from_start <= max_range

C1_LegsWithinRangeUnlessFallback ==
    (SelectionFinished /\ Planning /\ ~fallback_taken) => StopGapsWithinRange

\* C1 amended: in a finished selection in which step 3 was never entered
\* (some station was reachable in every iteration, so neither the fallback
\* selection nor the early termination happened) there is at least one stop
\* and every leg, origin to first stop, stop to stop, last stop to
\* destination, is at most max_range.
C1_LegsWithinRangeWhenAlwaysReachable ==
    (SelectionFinished /\ Planning /\ ~fallback_taken /\ ~broke_out)
        => (stops # <<>> /\ StopGapsWithinRange)

C1_Witness ==
    /\ pc = "selected"
    /\ ~fallback_taken
    /\ ~broke_out
    /\ Len(stops) = 2

\* C2: the stop sequence is strictly increasing in distance_from_start at
\* every point of the selection, fallback selections included.
C2_StopsStrictlyIncreasing ==
    \A i, j \in DOMAIN stops :
        i < j => stops[i].distance_from_start < stops[j].distance_from_start

C2_Witness ==
    /\ pc = "selected"
    /\ fallback_taken
    /\ Len(stops) = 2
    /\ last_choice.kind = "select"

\* C3: a call with total_distance_miles <= max_range returns zero stops,
\* total_gallons = total_distance_miles / mpg and total_fuel_cost = 0, and it
\* enters neither the projection nor the stop selection.
C3_WithinRangeShortCircuit ==
    ~Planning =>
        /\ called = {}
        /\ pc \in {"start", "done"}
        /\ pc = "done" =>
             /\ result.outcome = "no stop needed"
             /\ result.optimal_stops = <<>>
             /\ result.total_gallons[1] * mpg
                  = total_distance_miles * result.total_gallons[2]
             /\ result.total_fuel_cost[1] = 0

C3_Witness ==
    /\ pc = "done"
    /\ total_distance_miles = max_range
    /\ fuel_stations # <<>>
    /\ result.outcome = "no stop needed"

\* C4 as stated: in every outcome the reported total_gallons is exactly
\* total_distance_miles / mpg.
C4_GallonsExactInEveryOutcome ==
    pc = "done" =>
        result.total_gallons[1] * mpg = total_distance_miles * result.total_gallons[2]

\* C4 amended: total_gallons is exactly total_distance_miles / mpg in the
\* "no stop needed" and "no stations available" outcomes, and in the "stops
\* planned" outcome it is that quotient rounded to two decimals: a whole
\* number of hundredths no further than 0.005 from the quotient, whatever
\* stops were selected.
C4_GallonsExactOrRoundedToCents ==
    pc = "done" =>
        IF result.outcome = "stops planned"
        THEN /\ result.total_gallons[2] = 100
             /\ 2 * Abs(result.total_gallons[1] * mpg - 100 * total_distance_miles) <= mpg
        ELSE result.total_gallons[1] * mpg
               = total_distance_miles * result.total_gallons[2]

C4_Witness ==
    /\ pc = "done"
    /\ result.outcome = "stops planned"
    /\ result.optimal_stops # <<>>
    /\ result.total_gallons[1] * mpg # 100 * total_distance_miles

\* C5: when the route is longer than the range and no station with both
\* coordinates is within search_radius_miles of a sampled route point, the
\* call never enters the stop selector and returns the "no stations
\* available" status: error flag, advisory message, zero stops,
\* total_gallons = total_distance_miles / mpg, total_fuel_cost = 0.
NoStationNearRoute ==
    \A k \in DOMAIN fuel_stations :
        (fuel_stations[k].has_lat /\ fuel_stations[k].has_lon) =>
            \A c \in DOMAIN sampled_coords(Coordinates(route_geometry)) :
                Abs(fuel_stations[k].lat
                      - sampled_coords(Coordinates(route_geometry))[c][2])
                    > search_radius_miles

C5_NoStationsSoftStatus ==
    (Planning /\ NoStationNearRoute) =>
        /\ "_greedy_fuel_stops" \notin called
        /\ pc \in {"start", "projected", "done"}
        /\ pc = "projected" => ENABLED ReturnNoStations
        /\ pc = "done" =>
             /\ result.outcome = "no stations available"
             /\ result.error
             /\ result.message = NoStationsMessage
             /\ result.optimal_stops = <<>>
             /\ result.total_gallons[1] * mpg
                  = total_distance_miles * result.total_gallons[2]
             /\ result.total_fuel_cost[1] = 0

\* a station with coordinates lies 21 miles from the nearest route point
C5_Witness ==
    /\ pc = "done"
    /\ Planning
    /\ NoStationNearRoute
    /\ \E k \in DOMAIN fuel_stations, c \in DOMAIN Coordinates(route_geometry) :
         /\ fuel_stations[k].has_lat /\ fuel_stations[k].has_lon
         /\ fuel_stations[k].lat - Coordinates(route_geometry)[c][2]
              = search_radius_miles + 1

\* C6: planning over a route geometry without a coordinate sequence
\* ("coordinates" missing or empty) never yields a trip plan or a soft
\* status: once the projection has been entered, the call does not return
\* one of the result dictionaries.
C6_InvalidGeometryFailsFast ==
    (Coordinates(route_geometry) = <<>> /\ Planning /\ pc = "done") =>
        result.outcome \notin {"no stop needed", "no stations available", "stops planned"}

\* C8: Scenario B.  With total distance 600, range 500, mpg 10 and projected
\* stations at 300 mi ($3.00) and 450 mi ($2.80), the selection is exactly
\* the station at 450 mi and total_gallons is 60.
ScenarioB ==
    /\ total_distance_miles = 600
    /\ max_range = 500
    /\ mpg = 10
    /\ Len(route_stations) = 2
    /\ route_stations[1].distance_from_start = 300 /\ route_stations[1].price = 300
    /\ route_stations[2].distance_from_start = 450 /\ route_stations[2].price = 280

C8_ScenarioB ==
    (ScenarioB /\ SelectionFinished) =>
        /\ Len(stops) = 1
        /\ stops[1] = route_stations[2]
        /\ stops[1].distance_from_start = 450
        /\ pc = "done" =>
             /\ result.optimal_stops = stops
             /\ result.total_gallons[1] = 60 * result.total_gallons[2]

C8_Witness == ScenarioB /\ pc = "done"

\* C9: in an iteration that selects among reachable stations, when several
\* candidates (the far-reachable ones, or all reachable ones when none is
\* far) share the minimum price, the stop chosen is the first of them in the
\* distance-sorted list: the one of smallest distance_from_start, and of
\* earliest input position among equal distances.
CheapestCandidates(choice) ==
    {i \in DOMAIN choice.candidates :
        \A j \in DOMAIN choice.candidates :
            choice.candidates[i].price <= choice.candidates[j].price}

C9_PriceTieTakesFirst ==
    last_choice.kind = "select" =>
        /\ \E i \in CheapestCandidates(last_choice) :
             /\ last_choice.chosen = last_choice.candidates[i]
             /\ \A j \in CheapestCandidates(last_choice) : i <= j
        /\ \A j \in CheapestCandidates(last_choice) :
             \/ last_choice.chosen.distance_from_start
                  < last_choice.candidates[j].distance_from_start
             \/ /\ last_choice.chosen.distance_from_start
                     = last_choice.candidates[j].distance_from_start
                /\ last_choice.chosen.id <= last_choice.candidates[j].id

C9_Witness ==
    /\ last_choice.kind = "select"
    /\ last_choice.far_reachable # <<>>
    /\ \E i, j \in CheapestCandidates(last_choice) :
         last_choice.candidates[i].distance_from_start
           < last_choice.candidates[j].distance_from_start

\* C10: the projected list is sorted in non-decreasing distance_from_start,
\* and stations of equal distance_from_start keep the relative order of the
\* input list (ids are input positions); price plays no part.
C10_ProjectionSortedStable ==
    \A i, j \in DOMAIN route_stations :
        i < j =>
            \/ route_stations[i].distance_from_start < route_stations[j].distance_from_start
            \/ /\ route_stations[i].distance_from_start
                    = route_stations[j].distance_from_start
               /\ route_stations[i].id < route_stations[j].id

\* two stations of equal distance, the dearer one first as in the input
C10_Witness ==
    /\ pc = "projected"
    /\ Len(route_stations) = 2
    /\ route_stations[1].distance_from_start = route_stations[2].distance_from_start
    /\ route_stations[1].distance_from_start > 0
    /\ route_stations[1].price > route_stations[2].price

\* _find_stations_near_route has returned
Projected == "_find_stations_near_route" \in called

\* _find_stations_near_route has just returned its list
JustProjected == pc = "projected"

\* the sampled route points of the call
Samples == sampled_coords(Coordinates(route_geometry))

\* input station k has both coordinates and lies within the search radius
\* of some sampled route point
Qualifies(k) ==
    /\ fuel_stations[k].has_lat
    /\ fuel_stations[k].has_lon
    /\ \E i \in DOMAIN Samples :
         haversine_distance(Samples[i][2], Samples[i][1],
                            fuel_stations[k].lat, fuel_stations[k].lon) <= search_radius_miles

\* C11: the output of _find_stations_near_route has exactly one entry for
\* each input station that has both coordinates and whose minimum distance
\* to the sampled route points is at most search_radius_miles (boundary
\* included), and no other entry; a station without a coordinate is skipped
\* and the stations after it are still handled; every entry has
\* distance_to_route <= search_radius_miles.
C11_ExactlyTheStationsWithinRadius ==
    JustProjected =>
        /\ \A k \in DOMAIN fuel_stations :
             Cardinality({j \in DOMAIN route_stations : route_stations[j].id = k})
                 = IF Qualifies(k) THEN 1 ELSE 0
        /\ \A j \in DOMAIN route_stations :
             /\ route_stations[j].id \in DOMAIN fuel_stations
             /\ route_stations[j].lat = fuel_stations[route_stations[j].id].lat
             /\ route_stations[j].price = fuel_stations[route_stations[j].id].price
             /\ route_stations[j].distance_to_route >= 0
             /\ route_stations[j].distance_to_route <= search_radius_miles

\* a record without a coordinate comes first, and the station after it is
\* kept at exactly search_radius_miles from the route
C11_Witness ==
    /\ JustProjected
    /\ Len(fuel_stations) = 2
    /\ ~(fuel_stations[1].has_lat /\ fuel_stations[1].has_lon)
    /\ Len(route_stations) = 1
    /\ route_stations[1].id = 2
    /\ route_stations[1].distance_to_route = search_radius_miles

\* the positions in the projected list that the window of the latest
\* iteration covers, and those of them in the far half of the window
WindowOfChoice ==
    {j \in DOMAIN route_stations :
        /\ last_choice.from < route_stations[j].distance_from_start
        /\ route_stations[j].distance_from_start <= last_choice.from + last_choice.range}

FarHalfOfChoice ==
    {j \in WindowOfChoice :
        2 * route_stations[j].distance_from_start > 2 * last_choice.from + last_choice.range}

PoolOfChoice == IF FarHalfOfChoice # {} THEN FarHalfOfChoice ELSE WindowOfChoice

\* C12: in every iteration of the selection loop whose reachable set
\* {s : currentPosition < s.distance <= currentPosition + remainingRange} is
\* non-empty, the appended stop is a minimum-price member of the far half
\* {s reachable : s.distance > currentPosition + 0.5 * remainingRange} when
\* that is non-empty and a minimum-price member of the reachable set
\* otherwise; the fallback is taken only when the reachable set is empty.
C12_CheapestOfFarHalfElseOfWindow ==
    /\ last_choice.kind = "select" =>
          /\ WindowOfChoice # {}
          /\ stops # <<>>
          /\ stops[Len(stops)] = last_choice.chosen
          /\ \E j \in PoolOfChoice : route_stations[j] = last_choice.chosen
          /\ \A j \in PoolOfChoice : route_stations[j].price >= last_choice.chosen.price
    /\ last_choice.kind = "fallback" => WindowOfChoice = {}

\* the far half is not empty and the near half holds a cheaper station
C12_Witness ==
    /\ last_choice.kind = "select"
    /\ FarHalfOfChoice # {}
    /\ \E j \in WindowOfChoice \ FarHalfOfChoice :
         route_stations[j].price < last_choice.chosen.price

\* the loop is at its head, the destination is out of reach, no station
\* lies in (current_position, current_position + max_range], one lies ahead
FallbackCase ==
    /\ pc = "loop"
    /\ current_position + remaining_range < total_distance_miles
    /\ \A j \in DOMAIN route_stations :
         ~(/\ current_position < route_stations[j].distance_from_start
           /\ route_stations[j].distance_from_start <= current_position + max_range)
    /\ \E j \in DOMAIN route_stations :
         route_stations[j].distance_from_start > current_position

\* C13: in an iteration where the destination is not yet reachable and no
\* station lies in (currentPosition, currentPosition + maxRange] but some
\* station lies ahead, the station with the smallest distance greater than
\* currentPosition is appended (it is more than maxRange away),
\* currentPosition moves to it, remainingRange becomes maxRange, the loop
\* goes on, and the result of a call that took the fallback carries no
\* error and no message.
C13_FallbackTakesNearestAhead ==
    [][/\ FallbackCase =>
            \E j \in DOMAIN route_stations :
                /\ route_stations[j].distance_from_start > current_position + max_range
                /\ \A k \in DOMAIN route_stations :
                      route_stations[k].distance_from_start > current_position
                          => route_stations[k].distance_from_start
                                 >= route_stations[j].distance_from_start
                /\ stops' = Append(stops, route_stations[j])
                /\ current_position' = route_stations[j].distance_from_start
                /\ remaining_range' = max_range
                /\ pc' = "loop"
       /\ (fallback_taken' /\ pc' = "done") =>
            /\ result'.outcome = "stops planned"
            /\ result'.error = FALSE
            /\ "message" \notin DOMAIN result'
            /\ result'.optimal_stops = stops]_vars

\* the fallback has just chosen among two stations at different distances
C13_Witness ==
    /\ pc = "loop"
    /\ last_choice.kind = "fallback"
    /\ Len(last_choice.candidates) = 2
    /\ last_choice.candidates[1].distance_from_start
           # last_choice.candidates[2].distance_from_start
    /\ stops[Len(stops)] = last_choice.chosen

\* the loop body has run once per stop, and once more if it left by break
Iterations == Len(stops) + (IF broke_out THEN 1 ELSE 0)

\* the number of stations beyond the current position
StationsBeyond ==
    Cardinality({j \in DOMAIN route_stations :
                    route_stations[j].distance_from_start > current_position})

\* C14: the selection loop terminates for every station list, after at
\* most one iteration per station plus one and without selecting a station
\* twice; when it has returned, lastPosition + maxRange >= totalDistance or
\* no station lies beyond the final currentPosition; and no stop is
\* appended in a state where currentPosition + remainingRange >=
\* totalDistance.  Termination is stated by a variant: at the loop head a
\* step is always possible, and a step that stays in the loop appends one
\* stop and leaves strictly fewer stations beyond the current position.
C14_SelectionLoopTerminates ==
    /\ [](pc = "loop" => ENABLED Next)
    /\ [][(pc = "loop" /\ pc' = "loop") =>
             /\ StationsBeyond' < StationsBeyond
             /\ Len(stops') = Len(stops) + 1]_vars
    /\ [][pc = "loop" => pc' \in {"loop", "selected"}]_vars
    /\ [](/\ Iterations <= Len(route_stations) + 1
          /\ \A i, j \in DOMAIN stops : i # j => stops[i].id # stops[j].id
          /\ \A i \in DOMAIN stops :
                \E j \in DOMAIN route_stations : route_stations[j] = stops[i]
          /\ pc = "selected" =>
                \/ current_position + max_range >= total_distance_miles
                \/ \A j \in DOMAIN route_stations :
                      route_stations[j].distance_from_start <= current_position)
    /\ [][stops' # stops =>
             current_position + remaining_range < total_distance_miles]_vars

\* the loop has returned by break after one iteration per station plus one
C14_Witness ==
    /\ pc = "selected"
    /\ broke_out
    /\ Len(route_stations) = 2
    /\ Iterations = Len(route_stations) + 1

\* _calculate_total_cost has returned
CostCalculated == "_calculate_total_cost" \in called

\* the leg that starts at stop i: to the next stop, or to the destination
LegAfter(i) ==
    (IF i < Len(stops) THEN stops[i + 1].distance_from_start ELSE total_distance_miles)
        - stops[i].distance_from_start

\* ten times the gallons bought at stop i, times mpg:
\* min(1.2 * leg, max_range), in tenths of a mile
TenthsBought(i) ==
    IF 12 * LegAfter(i) <= 10 * max_range THEN 12 * LegAfter(i) ELSE 10 * max_range

\* the sum of TenthsBought(i) * price_i over the stops from i on;
\* in dollars the cost is this sum over 1000 * mpg
RECURSIVE CentTenthsFrom(_)
CentTenthsFrom(i) ==
    IF i > Len(stops) THEN 0
    ELSE TenthsBought(i) * stops[i].price + CentTenthsFrom(i + 1)

RECURSIVE FullTanksFrom(_)
FullTanksFrom(i) ==
    IF i > Len(stops) THEN 0
    ELSE 10 * max_range * stops[i].price + FullTanksFrom(i + 1)

\* C15: _calculate_total_cost returns 0 for an empty stop list and
\* otherwise the sum over the stops i of
\* min(1.2 * (next_i - d_i) / mpg, maxRange / mpg) * price_i, next_i being
\* the next stop's distance or totalDistance for the last stop; no stop
\* is charged more than a full tank maxRange / mpg, and the leg from the
\* origin to the first stop adds no term.
C15_CostIsSumOfCappedPurchases ==
    /\ ~CostCalculated => total_cost = Zero
    /\ CostCalculated =>
          /\ stops = <<>> => total_cost = Zero
          /\ total_cost = Frac(CentTenthsFrom(1), 1000 * mpg)
          /\ \A i \in DOMAIN stops : TenthsBought(i) <= 10 * max_range
          /\ CentTenthsFrom(1) <= FullTanksFrom(1)

\* two stops: the purchase at the first is 1.2 times its leg, the purchase
\* at the second is capped at a full tank
C15_Witness ==
    /\ CostCalculated
    /\ Len(stops) = 2
    /\ 12 * LegAfter(1) < 10 * max_range
    /\ 12 * LegAfter(2) > 10 * max_range
    /\ total_cost[1] > 0

\* the first iteration of the selection loop has just chosen a stop
FirstIterationChose ==
    /\ last_choice.kind = "select"
    /\ last_choice.from = 0
    /\ last_choice.range = max_range
    /\ Len(stops) = 1

\* C16 as stated: in the first iteration of Scenario B exactly one station
\* is far-reachable, the one at 450 mi.
C16_OnlyThe450StationIsFar ==
    (ScenarioB /\ FirstIterationChose) =>
        /\ Len(last_choice.far_reachable) = 1
        /\ last_choice.far_reachable[1].distance_from_start = 450
        /\ Cardinality(FarHalfOfChoice) = 1

\* Scenario B with any prices at the two stations
ScenarioBDistances ==
    /\ total_distance_miles = 600
    /\ max_range = 500
    /\ Len(route_stations) = 2
    /\ route_stations[1].distance_from_start = 300
    /\ route_stations[2].distance_from_start = 450

\* C16 amended: in the first iteration of Scenario B both stations are
\* far-reachable (300 > 0 + 0.5 * 500 and 450 > 250), and the price decides:
\* the station at 450 mi is chosen when it is strictly cheaper than the one
\* at 300 mi, as it is at $2.80 against $3.00, and the station at 300 mi
\* otherwise.
C16_BothStationsFarPriceDecides ==
    (ScenarioBDistances /\ FirstIterationChose) =>
        /\ last_choice.far_reachable = route_stations
        /\ FarHalfOfChoice = {1, 2}
        /\ last_choice.chosen =
              IF route_stations[2].price < route_stations[1].price
              THEN route_stations[2] ELSE route_stations[1]
        /\ ScenarioB => last_choice.chosen.distance_from_start = 450

C16_Witness == ScenarioB /\ FirstIterationChose /\ pc = "loop"

\* the length of the sampled route from its first point to point i
RECURSIVE PathTo(_)
PathTo(i) ==
    IF i <= 1 THEN 0
    ELSE PathTo(i - 1) + haversine_distance(Samples[i - 1][2], Samples[i - 1][1],
                                            Samples[i][2], Samples[i][1])

\* the distance from sampled point i to projected station j
OffsetAt(i, j) ==
    haversine_distance(Samples[i][2], Samples[i][1],
                       route_stations[j].lat, route_stations[j].lon)

\* sampled point i is a nearest one to projected station j
NearestAt(i, j) == \A k \in DOMAIN Samples : OffsetAt(k, j) >= OffsetAt(i, j)

\* C17: the distance_from_start of every projected station is the
\* cumulative along-route distance (the sum of the sample-to-sample
\* distances from the first sample) of the sampled point nearest to the
\* station, the earliest one along the route when several are equally near;
\* it is 0 for the first sample and never negative.
C17_DistanceOfEarliestNearestSample ==
    JustProjected =>
        \A j \in DOMAIN route_stations :
            \E i \in DOMAIN Samples :
                /\ route_stations[j].distance_from_start = PathTo(i)
                /\ route_stations[j].distance_to_route = OffsetAt(i, j)
                /\ NearestAt(i, j)
                /\ \A k \in 1..(i - 1) : ~NearestAt(k, j)
                /\ route_stations[j].distance_from_start >= 0
                /\ i = 1 => route_stations[j].distance_from_start = 0

\* a station has two equally near sampled points at different distances
\* along the route
C17_Witness ==
    /\ JustProjected
    /\ \E j \in DOMAIN route_stations :
         \E i, k \in DOMAIN Samples :
            /\ i < k
            /\ NearestAt(i, j)
            /\ NearestAt(k, j)
            /\ PathTo(i) # PathTo(k)
            /\ route_stations[j].distance_from_start = PathTo(i)

C19_ApiAttemptedForAtMostLimitCities ==
    /\ api_attempts <= ApiLimit
    /\ ~late_api_use

\* C20: every stop returned by _greedy_fuel_stops, a fallback stop
\* included, has distance_from_start < total_distance; so every
\* segment_distance in _calculate_total_cost is positive and
\* total_fuel_cost is not negative.
C20_StopsBeforeDestinationCostNonNegative ==
    SelectionFinished =>
        /\ \A i \in DOMAIN stops : stops[i].distance_from_start < total_distance_miles
        /\ CostCalculated =>
              /\ \A i \in DOMAIN stops : LegAfter(i) > 0
              /\ total_cost[1] >= 0
              /\ result.total_fuel_cost[1] >= 0

\* some projected station lies beyond the origin of the route
StationBeyondOrigin ==
    \E j \in DOMAIN route_stations : route_stations[j].distance_from_start > 0

\* find_optimal_fuel_stops has returned the dictionary of lines 73-79
StopsPlanned == pc = "done" /\ result.outcome = "stops planned"

\* C21 as stated: in the "stops planned" outcome the returned optimal_stops
\* is non-empty and fuel_stops_count >= 1.
C21_StopsPlannedHasAStop ==
    StopsPlanned =>
        /\ result.optimal_stops # <<>>
        /\ result.fuel_stops_count >= 1

\* C21 amended: in the "stops planned" outcome optimal_stops is non-empty
\* exactly when some station that passed the near-route filter has
\* distance_from_start > 0; when every such station is projected to the
\* first sampled point the outcome carries an empty list,
\* fuel_stops_count 0, total_fuel_cost 0 and no error.  The other two
\* outcomes always carry an empty list.
C21_StopsPlannedEmptyIffNoStationBeyondOrigin ==
    /\ stops # <<>> => StationBeyondOrigin
    /\ (SelectionFinished /\ StationBeyondOrigin) => stops # <<>>
    /\ StopsPlanned =>
          /\ total_distance_miles > max_range
          /\ route_stations # <<>>
          /\ result.optimal_stops = stops
          /\ result.fuel_stops_count = Len(stops)
          /\ ~result.error
          /\ stops = <<>> => result.total_fuel_cost[1] = 0
    /\ (pc = "done" /\ ~StopsPlanned) =>
          /\ result.outcome \in {"no stop needed", "no stations available"}
          /\ result.optimal_stops = <<>>

\* stations passed the filter, all at distance 0, and the plan has no stop
C21_Witness ==
    /\ StopsPlanned
    /\ route_stations # <<>>
    /\ ~StationBeyondOrigin
    /\ result.optimal_stops = <<>>
    /\ result.fuel_stops_count = 0

====
